---- MODULE Spec2Model ----
(***************************************************************************)
(* silo11writerdeck: the file export server (DownloadOnlyHandler), the     *)
(* Bluetooth auto-pair agent and the menu actions with their persisted     *)
(* state files, as state machines.                                         *)
(*                                                                         *)
(* One set of variables carries the three programs; each specification     *)
(* runs one of them and leaves the variables of the others untouched.      *)
(***************************************************************************)
EXTENDS Integers, Sequences, FiniteSets, TLC

VARIABLES
    \* ---- export_http_server.py ----
    serve_single_file,  \* Handler.serve_single_file: a path, or None
    allow_dir_list,     \* Handler.allow_dir_list
    cwd,                \* the server process's working directory
    fsKind,             \* file system: path -> "none" | "file" | "dir"
    fsIno,              \* file system: path -> inode of a regular file
    inoData,            \* inode -> bytes
    writes,             \* number of changes made to the served file so far
    h,                  \* request-handler threads: position and locals
    \* ---- bt_autopair_trust_connect_agent.py ----
    dry_run,            \* --dry-run
    post_connect_knobs, \* not --no-post-connect-knobs
    wait_retries,       \* --wait-retries
    bpc,                \* where the agent process is
    attempt,            \* wait_for_bluetooth_powered's i
    powered_seen,       \* a `bluetoothctl show` has reported "Powered: yes"
    registered,         \* RegisterAgent has been called
    executed,           \* the bluetoothctl subprocesses run so far, in order
    btlog,              \* the lines logged so far, in order
    mac_file,           \* /tmp/last_bluetooth_mac: its content and how often it was written
    cur,                \* the locals of the RequestConfirmation being (or last) handled
    requests,           \* pairing requests received so far
    \* ---- tui/actions.py, tui/theme.py, tui/menu.py ----
    is_macos,           \* actions.IS_MACOS
    wd_theme,           \* the environment's WD_THEME, a text (empty when unset)
    tpc,                \* where the menu process is
    crash,              \* the exception that ended the menu process, or "none"
    last_used_file,     \* actions._LAST_USED_FILE
    theme_file,         \* theme.THEME_FILE
    current_theme,      \* theme._CURRENT_THEME
    menu_last_used,     \* the launcher behind MAIN_MENU's "Last Used" entry, or None
    job,                \* the menu action in progress
    act,                \* what the command run by the menu action did
    obs,                \* what another process last read from a state file
    \* ---- tui/actions.py: screen rotation ----
    config,             \* CONFIG, /boot/firmware/config.txt: its lines
    prev_config,        \* CONFIG as the last set_rotation found it
    awk_space_class,    \* the system's awk reads \s as white space (gawk) or as "s" (mawk)
    rot_val,            \* the value last handed to set_rotation
    rpc,                \* where launch_rotation_action is
    \* ---- tui/actions.py run_custom_http_server, export_http_server.py main ----
    script_exists,      \* /usr/local/bin/export_http_server.py is installed
    listening,          \* the TCP ports something listens on
    menu_call,          \* the last run_custom_http_server call: what it probed, ran and showed
    cli,                \* the export_http_server.py process: its arguments and how far it got
    \* ---- export_http_server.py lan_ips ----
    gethostname,        \* what socket.gethostname() gives: a name, or Raises
    getsockname,        \* the address of the UDP socket after connect, or Raises
    hostname_I,         \* the words `hostname -I` prints, or Raises
    lpc,                \* lan_ips has not been called ("call") or has returned ("done")
    uniq,               \* what lan_ips returned
    \* ---- tui/view.py select_loop, tui/actions.py _show_output_pager ----
    sel,                \* select_loop: len(labels), current, the key last read, the value returned
    pager               \* _show_output_pager: len(lines), the window height, top, the key last read

httpVars == <<serve_single_file, allow_dir_list, cwd, fsKind, fsIno, inoData, writes, h>>
btVars == <<dry_run, post_connect_knobs, wait_retries, bpc, attempt, powered_seen,
            registered, executed, btlog, mac_file, cur, requests>>

tuiVars == <<is_macos, wd_theme, tpc, crash, last_used_file, theme_file, current_theme,
             menu_last_used, job, act, obs>>

rotVars == <<config, prev_config, awk_space_class, rot_val, rpc>>

cliVars == <<script_exists, listening, menu_call, cli>>

lanVars == <<gethostname, getsockname, hostname_I, lpc, uniq>>

viewVars == <<sel, pager>>

notHttp == <<btVars, tuiVars, rotVars, cliVars, lanVars, viewVars>>
notBt == <<httpVars, tuiVars, rotVars, cliVars, lanVars, viewVars>>
notTui == <<httpVars, btVars, rotVars, cliVars, lanVars, viewVars>>
notRot == <<httpVars, btVars, tuiVars, cliVars, lanVars, viewVars>>
notCli == <<httpVars, btVars, tuiVars, rotVars, lanVars, viewVars>>
notLan == <<httpVars, btVars, tuiVars, rotVars, cliVars, viewVars>>
notView == <<httpVars, btVars, tuiVars, rotVars, cliVars, lanVars>>

vars == <<httpVars, btVars, tuiVars, rotVars, cliVars, lanVars, viewVars>>

(***************************************************************************)
(* Bounds                                                                  *)
(***************************************************************************)
MaxUp == 2          \* most leading ".." segments of a request path
MaxWrites == 2      \* most changes another process makes to the served file
MaxRetries == 2     \* largest --wait-retries
MaxRequests == 1    \* most pairing requests the agent receives
MaxLines == 2       \* most lines of config.txt before the first set_rotation
MaxAddrs == 2       \* most addresses `hostname -I` prints
MaxLabels == 3      \* most labels handed to select_loop
MaxPagerLines == 4  \* most lines handed to _show_output_pager
MaxRows == 5        \* the tallest terminal window

(***************************************************************************)
(* Paths.  A file-system path is the sequence of its components below "/". *)
(* A request path is the sequence of its raw segments: <<"a","b">> is      *)
(* "/a/b", <<"sub","">> is "/sub/", <<"","x">> is "//x", <<>> is "/".      *)
(***************************************************************************)
None == <<"None">>

base_dir == <<"home", "export">>

Pub      == base_dir \o <<"pub.txt">>
Locked   == base_dir \o <<"locked.txt">>
Favicon  == base_dir \o <<"favicon.ico">>
Sub      == base_dir \o <<"sub">>
SubNote  == Sub \o <<"note.txt">>
Docs     == base_dir \o <<"docs">>
DocsIdx  == Docs \o <<"index.html">>
Secret   == <<"home", "secret.txt">>
Passwd   == <<"passwd">>
Missing  == base_dir \o <<"nope.txt">>

Paths == {<<>>, <<"home">>, Passwd, Secret, base_dir, Pub, Locked, Favicon,
          Sub, SubNote, Docs, DocsIdx}

\* Files the server process has no permission to open.
Unreadable == {Locked}

InitKind == [p \in Paths |->
               IF p \in {<<>>, <<"home">>, base_dir, Sub, Docs} THEN "dir" ELSE "file"]

InitIno == [p \in Paths |->
              CASE p = Passwd  -> 1
                [] p = Secret  -> 2
                [] p = Pub     -> 3
                [] p = Locked  -> 4
                [] p = Favicon -> 5
                [] p = SubNote -> 6
                [] p = DocsIdx -> 7
                [] OTHER       -> 0]

InitData == <<  <<7>>, <<9, 9>>, <<1, 2>>, <<6>>, <<5>>, <<3>>, <<4, 4>>  >>

\* What another process may write into the served file.
Contents == { <<>>, <<8>>, <<8, 8, 8>> }

Threads == {1, 2}

RECURSIVE Ups(_)
Ups(k) == IF k = 0 THEN <<>> ELSE <<"..">> \o Ups(k - 1)

\* The request paths a client sends.
ReqPaths ==
    { <<>>, <<"pub.txt">>, <<"nope.txt">>, <<"favicon.ico">>, <<"locked.txt">>,
      <<"anything", "ignored">>,
      <<"sub">>, <<"sub", "">>, <<"docs", "">>,
      <<"sub", "..", "pub.txt">>,
      <<"%2e%2e", "secret.txt">>,
      <<"", "passwd">>,
      <<"%2fpasswd">> }
    \cup { Ups(k) \o <<"secret.txt">> : k \in 1..MaxUp }
    \cup { Ups(k) \o <<"passwd">>     : k \in 1..MaxUp }
    \cup { Ups(k) \o <<"">>           : k \in 1..MaxUp }

(***************************************************************************)
(* os.path and urllib helpers, as the handler uses them                    *)
(***************************************************************************)
\* urllib.parse.unquote: %2e is "." and %2f is "/", which starts a new segment.
RECURSIVE unquote(_)
unquote(path) ==
    IF path = <<>> THEN <<>>
    ELSE (CASE Head(path) = "%2e%2e"    -> <<"..">>
            [] Head(path) = "%2e"       -> <<".">>
            [] Head(path) = "%2fpasswd" -> <<"", "passwd">>
            [] OTHER                    -> <<Head(path)>>) \o unquote(Tail(path))

\* BaseHTTPRequestHandler.parse_request: a path that starts with "//" is reduced
\* to a single leading "/".
RECURSIVE parse_request(_)
parse_request(path) ==
    IF Len(path) >= 2 /\ path[1] = "" THEN parse_request(Tail(path)) ELSE path

RECURSIVE normpath(_, _)
normpath(segs, acc) ==
    IF segs = <<>> THEN acc
    ELSE LET s == Head(segs) IN
         IF s \in {"", "."} THEN normpath(Tail(segs), acc)
         ELSE IF s = ".."
              THEN normpath(Tail(segs),
                            IF acc = <<>> THEN <<>> ELSE SubSeq(acc, 1, Len(acc) - 1))
              ELSE normpath(Tail(segs), Append(acc, s))

\* os.path.abspath(os.path.join(base, rel)), rel being the request path without
\* its first "/": a rel that still starts with "/" is absolute and replaces base.
abspath_join(base, rel) ==
    IF Len(rel) >= 2 /\ rel[1] = "" THEN normpath(rel, <<>>)
    ELSE normpath(base \o rel, <<>>)

basename(p) == IF p = <<>> THEN "" ELSE p[Len(p)]

Kind(p) == IF p \in Paths THEN fsKind[p] ELSE "none"
exists(p) == Kind(p) # "none"
isfile(p) == Kind(p) = "file"
isdir(p)  == Kind(p) = "dir"
\* open(path, "rb") succeeds
CanOpen(p) == isfile(p) /\ p \notin Unreadable
FileData(p) == inoData[fsIno[p]]

IsPrefix(a, b) == Len(a) <= Len(b) /\ SubSeq(b, 1, Len(a)) = a
InsideRoot(p) == IsPrefix(base_dir, p)

\* os.listdir(path): the names of the entries of a directory
listdir(p) ==
    { q[Len(q)] : q \in { r \in Paths : /\ Len(r) = Len(p) + 1
                                        /\ IsPrefix(p, r)
                                        /\ fsKind[r] # "none" } }

\* urllib.parse.urlsplit(self.path).path.endswith("/")
UrlPathEndsWithSlash(req) == req = <<>> \/ req[Len(req)] = ""

(***************************************************************************)
(* Responses                                                               *)
(***************************************************************************)
NoResp == [status |-> 0, kind |-> "none", cl |-> -1, cdisp |-> "none",
           cfile |-> "", cc |-> "none", body |-> <<>>, names |-> {}]

send_error(code) == [NoResp EXCEPT !.status = code, !.kind = "error"]

Idle == [pc |-> "idle", req |-> <<>>, path |-> <<>>, fd |-> 0, resp |-> NoResp]

(***************************************************************************)
(* DownloadOnlyHandler                                                     *)
(***************************************************************************)
translate_path_ignores_single_file(path) ==
    abspath_join(base_dir, unquote(path))

\* A handler that keeps the request path where every thread sees it.
translate_path_of_the_first_thread(path) ==
    IF serve_single_file # None
    THEN serve_single_file
    ELSE abspath_join(base_dir, unquote(h[1].req))

translate_path(path) ==
    IF serve_single_file # None
    THEN serve_single_file
    ELSE abspath_join(base_dir, unquote(path))

list_directory_always_lists(path) ==
    [NoResp EXCEPT !.status = 200, !.kind = "listing", !.names = listdir(path)]

list_directory(path) ==
    IF ~allow_dir_list
    THEN send_error(403)
    ELSE [NoResp EXCEPT !.status = 200, !.kind = "listing", !.names = listdir(path)]

\* The index page send_head serves instead of a listing, or None.
IndexOf(path) ==
    IF isfile(path \o <<"index.html">>) THEN path \o <<"index.html">>
    ELSE IF isfile(path \o <<"index.htm">>) THEN path \o <<"index.htm">>
    ELSE None

\* A connection is accepted and its request line read.
Accept(t) ==
    /\ h[t].pc = "idle"
    /\ \E p \in ReqPaths :
         h' = [h EXCEPT ![t] = [Idle EXCEPT !.pc = "do_GET", !.req = parse_request(p)]]
    /\ UNCHANGED <<serve_single_file, allow_dir_list, cwd, fsKind, fsIno, inoData, writes, notHttp>>

\* send_head up to the point where the file is opened.
send_head(t) ==
    LET path == translate_path(h[t].req) IN
    IF serve_single_file # None
    THEN IF exists(path) /\ isfile(path)
         THEN [h[t] EXCEPT !.pc = "open", !.path = path]
         ELSE [h[t] EXCEPT !.pc = "done", !.path = path, !.resp = send_error(404)]
    ELSE \* SimpleHTTPRequestHandler.send_head
         IF isdir(path)
         THEN IF ~UrlPathEndsWithSlash(h[t].req)
              THEN [h[t] EXCEPT !.pc = "done", !.path = path,
                                !.resp = [NoResp EXCEPT !.status = 301, !.kind = "redirect",
                                                        !.cl = 0]]
              ELSE IF IndexOf(path) # None
                   THEN [h[t] EXCEPT !.pc = "open", !.path = IndexOf(path)]
                   ELSE [h[t] EXCEPT !.pc = "done", !.path = path,
                                     !.resp = list_directory(path)]
         ELSE [h[t] EXCEPT !.pc = "open", !.path = path]

\* A handler without the favicon check.
do_GET_without_the_favicon_check(t) ==
    /\ h[t].pc = "do_GET"
    /\ h' = [h EXCEPT ![t] = send_head(t)]
    /\ UNCHANGED <<serve_single_file, allow_dir_list, cwd, fsKind, fsIno, inoData, writes, notHttp>>

do_GET(t) ==
    /\ h[t].pc = "do_GET"
    /\ h' = [h EXCEPT ![t] =
                IF h[t].req = <<"favicon.ico">>
                THEN [h[t] EXCEPT !.pc = "done", !.resp = send_error(404)]
                ELSE send_head(t)]
    /\ UNCHANGED <<serve_single_file, allow_dir_list, cwd, fsKind, fsIno, inoData, writes, notHttp>>

\* An open whose OSError is answered 500.
OpenFile_error_is_500(t) ==
    /\ h[t].pc = "open"
    /\ h' = [h EXCEPT ![t] =
                IF CanOpen(h[t].path)
                THEN [h[t] EXCEPT !.pc = "headers", !.fd = fsIno[h[t].path]]
                ELSE [h[t] EXCEPT !.pc = "done", !.resp = send_error(500)]]
    /\ UNCHANGED <<serve_single_file, allow_dir_list, cwd, fsKind, fsIno, inoData, writes, notHttp>>

\* f = open(path, "rb"); an OSError is answered 404.
OpenFile(t) ==
    /\ h[t].pc = "open"
    /\ h' = [h EXCEPT ![t] =
                IF CanOpen(h[t].path)
                THEN [h[t] EXCEPT !.pc = "headers", !.fd = fsIno[h[t].path]]
                ELSE [h[t] EXCEPT !.pc = "done", !.resp = send_error(404)]]
    /\ UNCHANGED <<serve_single_file, allow_dir_list, cwd, fsKind, fsIno, inoData, writes, notHttp>>

\* The headers of a file response.  Single-file mode takes the length from
\* os.path.getsize(path), which raises when the path is gone (the request then ends
\* without a response); the inherited send_head takes it from os.fstat of the open
\* file and adds no Content-Disposition and no Cache-Control.
SendHeaders(t) ==
    /\ h[t].pc = "headers"
    /\ h' = [h EXCEPT ![t] =
                IF serve_single_file # None
                THEN IF ~exists(h[t].path)
                     THEN [h[t] EXCEPT !.pc = "done", !.resp = [NoResp EXCEPT !.kind = "aborted"]]
                     ELSE [h[t] EXCEPT !.pc = "copy",
                              !.resp = [NoResp EXCEPT !.status = 200,
                                          !.cl = Len(FileData(h[t].path)),
                                          !.cdisp = "attachment",
                                          !.cfile = basename(h[t].path),
                                          !.cc = "no-store"]]
                ELSE [h[t] EXCEPT !.pc = "copy",
                         !.resp = [NoResp EXCEPT !.status = 200,
                                     !.cl = Len(inoData[h[t].fd])]]]
    /\ UNCHANGED <<serve_single_file, allow_dir_list, cwd, fsKind, fsIno, inoData, writes, notHttp>>

\* do_GET's copyfile(f, self.wfile): the open file is read to its end.
CopyFile(t) ==
    /\ h[t].pc = "copy"
    /\ h' = [h EXCEPT ![t] = [h[t] EXCEPT !.pc = "done",
                                         !.resp = [h[t].resp EXCEPT !.kind = "file",
                                                      !.body = inoData[h[t].fd]]]]
    /\ UNCHANGED <<serve_single_file, allow_dir_list, cwd, fsKind, fsIno, inoData, writes, notHttp>>

\* The connection is closed and the thread ends.
Finish(t) ==
    /\ h[t].pc = "done"
    /\ h' = [h EXCEPT ![t] = Idle]
    /\ UNCHANGED <<serve_single_file, allow_dir_list, cwd, fsKind, fsIno, inoData, writes, notHttp>>

Handler(t) ==
    \/ Accept(t)
    \/ do_GET(t)
    \/ OpenFile(t)
    \/ SendHeaders(t)
    \/ CopyFile(t)
    \/ Finish(t)

(***************************************************************************)
(* The export server over an unchanging file system                        *)
(***************************************************************************)
\* A state file: whether it exists and its text, a sequence of words and blanks.
NoFile == [exists |-> FALSE, text |-> <<>>]
NoJob == [kind |-> "none", arg |-> <<>>, name |-> "", old |-> <<>>, pass |-> 0]
NoAct == [cmd |-> "none", ran |-> FALSE, outcome |-> "none", dialog |-> FALSE,
          escaped |-> FALSE]
NoObs == [file |-> "none", value |-> <<>>, writing |-> FALSE, old |-> <<>>, new |-> <<>>]

\* get_current_rotation's None
NoRotation == -1

NoConfig == [exists |-> FALSE, lines |-> <<>>, eol |-> TRUE]

\* No run_custom_http_server call yet, no export_http_server.py process yet.
NoCall == [port |-> "none", probed |-> "none", shown |-> "none", outcome |-> "none"]
NoArgs == [dir |-> <<>>, file |-> <<>>, port |-> "none", list |-> FALSE]
NoCli == [state |-> "none", by |-> "none", argv |-> NoArgs, serve_file |-> <<>>,
          bound |-> "none", exit_status |-> "none"]

CliOff ==
    /\ script_exists = FALSE
    /\ listening = {}
    /\ menu_call = NoCall
    /\ cli = NoCli

\* A call that raises an exception, and one that returns a value.
Raises == [raises |-> TRUE, value |-> <<>>]
Returns(value) == [raises |-> FALSE, value |-> value]

\* No select_loop and no pager is running.
NoSel == [pc |-> "off", len |-> 0, current |-> 0, key |-> "none", ret |-> -1]
NoPager == [pc |-> "off", len |-> 1, h |-> 0, top |-> 0, key |-> "none"]

ViewOff ==
    /\ sel = NoSel
    /\ pager = NoPager

\* lan_ips is not called.
LanOff ==
    /\ gethostname = Raises
    /\ getsockname = Raises
    /\ hostname_I = Raises
    /\ lpc = "off"
    /\ uniq = <<>>

\* The rotation dialog is not open.
RotOff ==
    /\ config = NoConfig
    /\ prev_config = NoConfig
    /\ awk_space_class = TRUE
    /\ rot_val = NoRotation
    /\ rpc = "off"

\* The menu is not running.
TuiOff ==
    /\ is_macos = FALSE
    /\ wd_theme = <<>>
    /\ tpc = "off"
    /\ crash = "none"
    /\ last_used_file = NoFile
    /\ theme_file = NoFile
    /\ current_theme = "night"
    /\ menu_last_used = None
    /\ job = NoJob
    /\ act = NoAct
    /\ obs = NoObs

\* The agent process is not running.
BtOff ==
    /\ dry_run = FALSE
    /\ post_connect_knobs = TRUE
    /\ wait_retries = 0
    /\ bpc = "off"
    /\ attempt = 0
    /\ powered_seen = FALSE
    /\ registered = FALSE
    /\ executed = <<>>
    /\ btlog = <<>>
    /\ mac_file = [text |-> <<>>, written |-> 0]
    /\ cur = [device |-> <<>>, mac |-> <<>>, rc_c |-> -1, start |-> 0]
    /\ requests = 0

InitHttp ==
    /\ RotOff
    /\ CliOff
    /\ LanOff
    /\ ViewOff
    /\ BtOff
    /\ TuiOff
    /\ serve_single_file \in {None, Pub, Locked, Sub, Missing, Favicon}
    /\ allow_dir_list \in BOOLEAN
    /\ cwd = base_dir
    /\ fsKind \in {InitKind, [InitKind EXCEPT ![Favicon] = "none"]}
    /\ fsIno = InitIno
    /\ inoData = InitData
    /\ writes = 0
    /\ h = [t \in Threads |-> Idle]

NextHttp == \E t \in Threads : Handler(t)

SpecHttp == InitHttp /\ [][NextHttp]_vars

(***************************************************************************)
(* The export server in single-file mode while another process (an editor, *)
(* a copy) changes the served file                                         *)
(***************************************************************************)
\* os.replace(tmp, path): the path names a new file; an open descriptor keeps the old.
FsReplace ==
    /\ writes < MaxWrites
    /\ \E c \in Contents :
         /\ inoData' = Append(inoData, c)
         /\ fsIno' = [fsIno EXCEPT ![Pub] = Len(inoData) + 1]
    /\ fsKind' = [fsKind EXCEPT ![Pub] = "file"]
    /\ writes' = writes + 1
    /\ UNCHANGED <<serve_single_file, allow_dir_list, cwd, h, notHttp>>

\* open(path, "w") and write(): the file is changed in place.
FsWriteInPlace ==
    /\ writes < MaxWrites
    /\ fsKind[Pub] = "file"
    /\ \E c \in Contents : inoData' = [inoData EXCEPT ![fsIno[Pub]] = c]
    /\ writes' = writes + 1
    /\ UNCHANGED <<serve_single_file, allow_dir_list, cwd, fsKind, fsIno, h, notHttp>>

\* os.unlink(path)
FsDelete ==
    /\ writes < MaxWrites
    /\ fsKind[Pub] = "file"
    /\ fsKind' = [fsKind EXCEPT ![Pub] = "none"]
    /\ writes' = writes + 1
    /\ UNCHANGED <<serve_single_file, allow_dir_list, cwd, fsIno, inoData, h, notHttp>>

InitRace ==
    /\ RotOff
    /\ CliOff
    /\ LanOff
    /\ ViewOff
    /\ BtOff
    /\ TuiOff
    /\ serve_single_file = Pub
    /\ allow_dir_list = FALSE
    /\ cwd = base_dir
    /\ fsKind = InitKind
    /\ fsIno = InitIno
    /\ inoData = InitData
    /\ writes = 0
    /\ h = [t \in Threads |-> Idle]

NextRace ==
    \/ Handler(1)
    \/ FsReplace
    \/ FsWriteInPlace
    \/ FsDelete

SpecRace == InitRace /\ [][NextRace]_vars

(***************************************************************************)
(* Properties of the export server                                         *)
(***************************************************************************)
Done(t) == h[t].pc = "done"
DirMode == serve_single_file = None

\* C1: in directory mode a GET whose path resolves outside the export root is
\* answered 403 or 404 and no file content is sent.
C1_TraversalIsBlocked ==
    \A t \in Threads :
        (Done(t) /\ DirMode /\ h[t].req # <<"favicon.ico">> /\ ~InsideRoot(h[t].path))
            => (h[t].resp.status \in {403, 404} /\ h[t].resp.body = <<>>)

C3_HeadersMatchTheBody ==
    \A t \in Threads :
        (Done(t) /\ ~DirMode /\ h[t].resp.status = 200)
            => /\ h[t].resp.cdisp = "attachment"
               /\ h[t].resp.cfile = basename(serve_single_file)
               /\ h[t].resp.cc = "no-store"
               /\ h[t].resp.cl = Len(h[t].resp.body)

\* C4: every 200 response that delivers a file's content, in either mode, carries
\* Content-Disposition attachment and Cache-Control no-store.
C4_FileResponsesAreAttachments ==
    \A t \in Threads :
        (Done(t) /\ h[t].resp.status = 200 /\ h[t].resp.kind = "file")
            => (h[t].resp.cdisp = "attachment" /\ h[t].resp.cc = "no-store")

\* The request named a directory: its translated path, before an index page
\* replaced it.
NamedDir(t) == abspath_join(base_dir, unquote(h[t].req))

\* C5 as stated: with allow_dir_list false every GET naming an existing directory
\* under the root is answered 403 and no entry name is sent; with allow_dir_list
\* true a GET naming a directory without an index file is answered 200 with a
\* listing.
C5_DirectoryRequests ==
    \A t \in Threads :
        (Done(t) /\ DirMode /\ isdir(NamedDir(t)))
            => /\ (~allow_dir_list /\ InsideRoot(NamedDir(t)))
                    => (h[t].resp.status = 403 /\ h[t].resp.names = {})
               /\ (allow_dir_list /\ IndexOf(NamedDir(t)) = None)
                    => (h[t].resp.status = 200 /\ h[t].resp.kind = "listing")

\* C5 amended: a listing is sent only when allow_dir_list is true.  A GET naming
\* an existing directory without a trailing slash is answered 301; with a trailing
\* slash and an index file it is answered with the index file; with a trailing
\* slash and no index file it is answered 403 without any entry name when
\* allow_dir_list is false, and 200 with the listing when it is true.
C5_ListingOnlyWhenAllowed ==
    \A t \in Threads :
        /\ (Done(t) /\ h[t].resp.kind = "listing") => (DirMode /\ allow_dir_list)
        /\ (Done(t) /\ DirMode /\ isdir(NamedDir(t)))
              => IF ~UrlPathEndsWithSlash(h[t].req)
                 THEN h[t].resp.status = 301 /\ h[t].resp.names = {}
                 ELSE IF IndexOf(NamedDir(t)) # None
                 THEN /\ h[t].resp.status = 200
                      /\ h[t].resp.kind = "file"
                      /\ h[t].resp.body = FileData(IndexOf(NamedDir(t)))
                 ELSE IF allow_dir_list
                 THEN /\ h[t].resp.status = 200
                      /\ h[t].resp.kind = "listing"
                      /\ h[t].resp.names = listdir(NamedDir(t))
                 ELSE /\ h[t].resp.status = 403
                      /\ h[t].resp.names = {}

\* A request for /sub/ has been refused with the flag off, or answered with the
\* listing with the flag on.
C5_Witness ==
    \E t \in Threads :
        /\ Done(t) /\ DirMode /\ h[t].req = <<"sub", "">>
        /\ \/ (~allow_dir_list /\ h[t].resp.status = 403)
           \/ (allow_dir_list /\ h[t].resp.names = {"note.txt"})

\* The response do_GET gives to a request when nothing else runs between its
\* steps: the favicon check, send_head, the open, the headers and copyfile in one go.
FileResponse(path) ==
    IF ~CanOpen(path) THEN send_error(404)
    ELSE IF serve_single_file # None
         THEN [NoResp EXCEPT !.status = 200, !.kind = "file",
                             !.cl = Len(FileData(path)), !.cdisp = "attachment",
                             !.cfile = basename(path), !.cc = "no-store",
                             !.body = FileData(path)]
         ELSE [NoResp EXCEPT !.status = 200, !.kind = "file",
                             !.cl = Len(FileData(path)), !.body = FileData(path)]

SerialResponse(req) ==
    LET path == translate_path(req) IN
    IF req = <<"favicon.ico">> THEN send_error(404)
    ELSE IF serve_single_file # None
         THEN IF exists(path) /\ isfile(path) THEN FileResponse(path) ELSE send_error(404)
         ELSE IF isdir(path)
              THEN IF ~UrlPathEndsWithSlash(req)
                   THEN [NoResp EXCEPT !.status = 301, !.kind = "redirect", !.cl = 0]
                   ELSE IF IndexOf(path) # None THEN FileResponse(IndexOf(path))
                        ELSE list_directory(path)
              ELSE FileResponse(path)

C15_MissingIsNotFound ==
    \A t \in Threads :
        (/\ Done(t) /\ DirMode
         /\ InsideRoot(NamedDir(t))
         /\ ~exists(NamedDir(t)))
            => (h[t].resp.status = 404 /\ h[t].resp.kind = "error")

\* /nope.txt, which resolves to no file in the export root, has been answered
\* after the open failed.
C15_Witness ==
    \E t \in Threads :
        /\ Done(t) /\ DirMode
        /\ h[t].req = <<"nope.txt">>
        /\ h[t].path = Missing
        /\ h[t].resp.status = 404

HexDigits == {"0", "1", "2", "3", "4", "5", "6", "7", "8", "9",
              "a", "b", "c", "d", "e", "f", "A", "B", "C", "D", "E", "F"}

DevUpper == <<"h", "c", "i", "0", "/", "d", "e", "v", "_", "A", "A", "_", "0", "B">>
DevLower == <<"h", "c", "i", "0", "/", "d", "e", "v", "_", "c", "c", "_", "1", "d">>
DevNone  == <<"h", "c", "i", "0">>
DevBad   == <<"h", "c", "i", "0", "/", "d", "e", "v", "_", "A", "G">>

Devices == {DevUpper, DevLower, DevNone, DevBad}

Off == <<"o", "f", "f">>
NoMac == <<>>

\* str.upper() on one character
upper(c) ==
    CASE c = "a" -> "A" [] c = "b" -> "B" [] c = "c" -> "C"
      [] c = "d" -> "D" [] c = "e" -> "E" [] c = "f" -> "F"
      [] OTHER -> c

\* re.search(r"dev_([0-9a-fA-F_]+)$", device_path): where the leftmost match starts,
\* or 0.
MatchStart(device_path) ==
    LET n == Len(device_path)
        ok(i) == /\ i + 4 <= n
                 /\ SubSeq(device_path, i, i + 3) = <<"d", "e", "v", "_">>
                 /\ \A j \in (i + 4)..n : device_path[j] \in HexDigits \cup {"_"}
        starts == {i \in 1..n : ok(i)}
    IN IF starts = {} THEN 0
       ELSE CHOOSE i \in starts : \A j \in starts : i <= j

\* Agent.extract_mac: None is NoMac.
extract_mac(device_path) ==
    LET i == MatchStart(device_path) IN
    IF i = 0 THEN NoMac
    ELSE LET g == SubSeq(device_path, i + 4, Len(device_path)) IN
         [k \in 1..Len(g) |-> upper(IF g[k] = "_" THEN ":" ELSE g[k])]

Line(msg, cmd, arg) == [msg |-> msg, cmd |-> cmd, arg |-> arg]
Cmd(cmd, arg) == [cmd |-> cmd, arg |-> arg]

\* How a bluetoothctl subprocess ends: exit code 0, a non-zero exit code,
\* TimeoutExpired after 5 s, or another exception of subprocess.run.
Outcomes == {"ok", "fail", "timeout", "error"}

\* Agent.run_bt: the log, the executed commands and the return code after
\* `bluetoothctl cmd arg` ends with outcome o.
run_bt(cmd, arg, o) ==
    LET logged == Append(btlog, Line("$ bluetoothctl", cmd, arg)) IN
    IF dry_run
    THEN [log |-> Append(logged, Line("[DRY RUN] Skipping execution", "", <<>>)),
          exec |-> executed, rc |-> 0]
    ELSE [log |-> CASE o = "timeout" ->
                         Append(logged, Line("[btctl] ERROR: command timed out", "", <<>>))
                    [] o = "error" -> Append(logged, Line("[btctl] ERROR", "", <<>>))
                    [] OTHER -> logged,
          exec |-> Append(executed, Cmd(cmd, arg)),
          rc |-> CASE o = "ok" -> 0 [] o = "timeout" -> 124 [] OTHER -> 1]

ApplyKnobs_whatever_connect_returned(rc_c) == post_connect_knobs

\* RequestConfirmation's test before the post-connect knobs.
ApplyKnobs(rc_c) == rc_c = 0 /\ post_connect_knobs

\* register_agent up to the wait: bluetoothctl must be in PATH; the wait for the
\* adapter is skipped with --dry-run; a wait of no attempts only logs the warning.
Start ==
    /\ bpc = "start"
    /\ \E have_bluetoothctl \in BOOLEAN :
         IF ~have_bluetoothctl
         THEN /\ bpc' = "exited"
              /\ UNCHANGED <<attempt, btlog>>
         ELSE IF dry_run
         THEN /\ bpc' = "register"
              /\ UNCHANGED <<attempt, btlog>>
         ELSE IF wait_retries >= 1
         THEN /\ bpc' = "wait"
              /\ attempt' = 1
              /\ UNCHANGED btlog
         ELSE /\ bpc' = "register"
              /\ btlog' = Append(btlog, Line("WARNING: never saw Powered: yes; continuing anyway", "", <<>>))
              /\ UNCHANGED attempt
    /\ UNCHANGED <<dry_run, post_connect_knobs, wait_retries, powered_seen, registered,
                   executed, mac_file, cur, requests, notBt>>

\* One attempt of wait_for_bluetooth_powered.  Only TimeoutExpired is caught:
\* another exception of subprocess.run ends the process.
WaitAttempt ==
    /\ bpc = "wait"
    /\ executed' = Append(executed, Cmd("show", <<>>))
    /\ \E o \in {"powered", "not powered", "timeout", "error"} :
         CASE o = "powered" ->
                /\ btlog' = Append(btlog, Line("Bluetooth adapter is powered: OK", "", <<>>))
                /\ powered_seen' = TRUE
                /\ bpc' = "register"
                /\ UNCHANGED attempt
           [] o = "error" ->
                /\ bpc' = "exited"
                /\ UNCHANGED <<btlog, powered_seen, attempt>>
           [] OTHER ->
                /\ UNCHANGED powered_seen
                /\ IF attempt < wait_retries
                   THEN /\ btlog' = Append(btlog, Line("Adapter not powered yet", "", <<>>))
                        /\ attempt' = attempt + 1
                        /\ UNCHANGED bpc
                   ELSE /\ btlog' = btlog \o
                              << Line("Adapter not powered yet", "", <<>>),
                                 Line("WARNING: never saw Powered: yes; continuing anyway", "", <<>>) >>
                        /\ bpc' = "register"
                        /\ UNCHANGED attempt
    /\ UNCHANGED <<dry_run, post_connect_knobs, wait_retries, registered, mac_file, cur,
                   requests, notBt>>

\* manager.RegisterAgent and RequestDefaultAgent; a D-Bus error ends the process.
Register ==
    /\ bpc = "register"
    /\ \E ok \in BOOLEAN :
         IF ok
         THEN /\ registered' = TRUE
              /\ btlog' = Append(btlog, Line("Agent registered (NoInputNoOutput) and running", "", <<>>))
              /\ bpc' = "loop"
         ELSE /\ bpc' = "exited"
              /\ UNCHANGED <<registered, btlog>>
    /\ UNCHANGED <<dry_run, post_connect_knobs, wait_retries, attempt, powered_seen,
                   executed, mac_file, cur, requests, notBt>>

\* RequestConfirmation up to its first bluetoothctl command.
RequestConfirmation ==
    /\ bpc = "loop"
    /\ requests < MaxRequests
    /\ requests' = requests + 1
    /\ \E device \in Devices :
         LET mac == extract_mac(device)
             l0 == btlog \o << Line("Auto-confirming", "", device),
                               Line("Extracted MAC", "", mac) >>
         IN /\ cur' = [device |-> device, mac |-> mac, rc_c |-> -1, start |-> Len(executed)]
            /\ IF dry_run
               THEN /\ btlog' = Append(l0, Line("[DRY RUN] Would trust/connect and apply post-connect knobs", "", <<>>))
                    /\ bpc' = "loop"
               ELSE IF mac = NoMac
               THEN /\ btlog' = Append(l0, Line("[ERROR] Could not parse MAC", "", device))
                    /\ bpc' = "loop"
               ELSE /\ btlog' = Append(l0, Line("Trusting", "", mac))
                    /\ bpc' = "trust"
    /\ UNCHANGED <<dry_run, post_connect_knobs, wait_retries, attempt, powered_seen,
                   registered, executed, mac_file, notBt>>

\* rc_t, _ = self.run_bt("trust", mac)
Trust ==
    /\ bpc = "trust"
    /\ \E o \in Outcomes :
         LET r == run_bt("trust", cur.mac, o) IN
         /\ btlog' = Append(r.log, Line("Connecting", "", cur.mac))
         /\ executed' = r.exec
    /\ bpc' = "connect"
    /\ UNCHANGED <<dry_run, post_connect_knobs, wait_retries, attempt, powered_seen,
                   registered, mac_file, cur, requests, notBt>>

\* rc_c, _ = self.run_bt("connect", mac), and the test that follows it.
Connect ==
    /\ bpc = "connect"
    /\ \E o \in Outcomes :
         LET r == run_bt("connect", cur.mac, o) IN
         /\ executed' = r.exec
         /\ cur' = [cur EXCEPT !.rc_c = r.rc]
         /\ IF ApplyKnobs(r.rc)
            THEN /\ btlog' = Append(r.log, Line("Connect OK -> turning discoverable/pairable/scan OFF", "", <<>>))
                 /\ bpc' = "discoverable"
            ELSE IF r.rc # 0
            THEN /\ btlog' = Append(r.log, Line("Connect failed -> skipping post-connect knobs", "", <<>>))
                 /\ bpc' = "write_mac"
            ELSE /\ btlog' = r.log
                 /\ bpc' = "write_mac"
    /\ UNCHANGED <<dry_run, post_connect_knobs, wait_retries, attempt, powered_seen,
                   registered, mac_file, requests, notBt>>

\* self.run_bt("discoverable", "off"); self.run_bt("pairable", "off");
\* self.run_bt("scan", "off")
Knob ==
    /\ bpc \in {"discoverable", "pairable", "scan"}
    /\ \E o \in Outcomes :
         LET r == run_bt(bpc, Off, o) IN
         /\ btlog' = r.log
         /\ executed' = r.exec
    /\ bpc' = CASE bpc = "discoverable" -> "pairable"
                [] bpc = "pairable" -> "scan"
                [] OTHER -> "write_mac"
    /\ UNCHANGED <<dry_run, post_connect_knobs, wait_retries, attempt, powered_seen,
                   registered, mac_file, cur, requests, notBt>>

\* open("/tmp/last_bluetooth_mac", "w") and write; an exception is logged.  The
\* open truncates the file, so a write (or the flush at close) that fails leaves
\* it empty; an open that fails leaves it as it was.
WriteMac ==
    /\ bpc = "write_mac"
    /\ \E o \in {"ok", "open fails", "write fails"} :
         CASE o = "ok" ->
                /\ mac_file' = [text |-> cur.mac, written |-> mac_file.written + 1]
                /\ UNCHANGED btlog
           [] o = "write fails" ->
                /\ mac_file' = [text |-> <<>>, written |-> mac_file.written + 1]
                /\ btlog' = Append(btlog, Line("[MAC LOGGING ERROR]", "", <<>>))
           [] OTHER ->
                /\ btlog' = Append(btlog, Line("[MAC LOGGING ERROR]", "", <<>>))
                /\ UNCHANGED mac_file
    /\ bpc' = "loop"
    /\ UNCHANGED <<dry_run, post_connect_knobs, wait_retries, attempt, powered_seen,
                   registered, executed, cur, requests, notBt>>

\* The export server is not running.
HttpOff ==
    /\ serve_single_file = None
    /\ allow_dir_list = FALSE
    /\ cwd = base_dir
    /\ fsKind = InitKind
    /\ fsIno = InitIno
    /\ inoData = InitData
    /\ writes = 0
    /\ h = [t \in Threads |-> Idle]

InitBt ==
    /\ RotOff
    /\ CliOff
    /\ LanOff
    /\ ViewOff
    /\ HttpOff
    /\ TuiOff
    /\ dry_run \in BOOLEAN
    /\ post_connect_knobs \in BOOLEAN
    /\ wait_retries \in {0, MaxRetries}
    /\ bpc = "start"
    /\ attempt = 0
    /\ powered_seen = FALSE
    /\ registered = FALSE
    /\ executed = <<>>
    /\ btlog = <<>>
    /\ mac_file = [text |-> <<>>, written |-> 0]
    /\ cur = [device |-> <<>>, mac |-> <<>>, rc_c |-> -1, start |-> 0]
    /\ requests = 0

NextBt ==
    \/ Start
    \/ WaitAttempt
    \/ Register
    \/ RequestConfirmation
    \/ Trust
    \/ Connect
    \/ Knob
    \/ WriteMac

SpecBt == InitBt /\ [][NextBt]_vars

(***************************************************************************)
(* Properties of the agent                                                 *)
(***************************************************************************)
\* The bluetoothctl commands the current RequestConfirmation has run so far.
Issued == SubSeq(executed, cur.start + 1, Len(executed))

KnobCmds == << Cmd("discoverable", Off), Cmd("pairable", Off), Cmd("scan", Off) >>

\* A RequestConfirmation that was not a dry run and had a MAC is being handled or
\* was the last one handled.
InCall == ~dry_run /\ requests > 0 /\ cur.mac # NoMac
CallOver == InCall /\ bpc \in {"write_mac", "loop"}

\* C6: on RequestConfirmation (no dry run, MAC extracted) the commands
\* discoverable off, pairable off, scan off are issued, in that order and after
\* connect, if and only if connect returned 0 and the knobs are enabled; no knob
\* command is issued before connect has returned, nor after a connect that failed
\* or timed out.
C6_KnobsOnlyAfterSuccessfulConnect ==
    InCall =>
        LET head == << Cmd("trust", cur.mac), Cmd("connect", cur.mac) >>
            full == IF cur.rc_c = 0 /\ post_connect_knobs THEN head \o KnobCmds ELSE head
        IN /\ Len(Issued) <= Len(full)
           /\ Issued = SubSeq(full, 1, Len(Issued))
           /\ CallOver => Issued = full
           /\ cur.rc_c = -1 => Len(Issued) <= 1

\* A successful connect was followed by the three knobs, and the call is over.
C6_Witness ==
    /\ CallOver
    /\ cur.rc_c = 0
    /\ Len(Issued) = 5
    /\ Issued[5] = Cmd("scan", Off)

Range(f) == {f[i] : i \in DOMAIN f}

\* C7: with --dry-run no bluetoothctl subprocess is executed, the MAC file is never
\* written, and every bluetoothctl command a pairing request would have run is
\* logged.
C7_DryRunLogsCommands ==
    dry_run =>
        /\ executed = <<>>
        /\ mac_file.written = 0
        /\ (requests > 0 /\ cur.mac # NoMac /\ bpc = "loop") =>
              /\ Line("$ bluetoothctl", "trust", cur.mac) \in Range(btlog)
              /\ Line("$ bluetoothctl", "connect", cur.mac) \in Range(btlog)
              /\ post_connect_knobs =>
                    \A k \in 1..3 :
                        Line("$ bluetoothctl", KnobCmds[k].cmd, Off) \in Range(btlog)

\* C18: register_agent calls RegisterAgent only after a `bluetoothctl show` has
\* reported "Powered: yes".
C18_RegisteredOnlyWhenPowered ==
    registered => powered_seen

\* C19: after a RequestConfirmation that is no dry run and has a MAC, the MAC
\* file holds that MAC, upper case and colon-separated, whether or not trust and
\* connect succeeded; a RequestConfirmation without a MAC runs no bluetoothctl
\* command and leaves the file as it was.
C19_MacFileHoldsTheLastMac ==
    /\ []((CallOver /\ bpc = "loop") =>
             /\ mac_file.text = cur.mac
             /\ \A k \in 1..Len(mac_file.text) :
                    mac_file.text[k] \notin {"a", "b", "c", "d", "e", "f", "_"})
    /\ [][(bpc = "loop" /\ requests' = requests + 1 /\ ~dry_run /\ cur'.mac = NoMac) =>
             (mac_file' = mac_file /\ executed' = executed /\ bpc' = "loop")]_vars

(***************************************************************************)
(* tui: the menu process, the commands its actions run and the two state   *)
(* files (last_used.txt under the XDG state directory, theme under the XDG *)
(* config directory)                                                       *)
(***************************************************************************)
NL == "\n"
Blank == {NL, " "}

FileOf(text) == [exists |-> TRUE, text |-> text]

THEME_PRESETS == {"day", "night", "toxic"}

LAST_USED_LAUNCHERS == {"diary", "emacs", "gedit", "nano", "obsidian", "vim", "wordgrinder"}

\* The kind each run_<app> hands to launch_app.
LauncherKind(app_id) == IF app_id \in {"gedit", "obsidian"} THEN "gui" ELSE "tui"

\* The launchers writing_suite_menu offers on this platform.
writing_suite_menu ==
    IF is_macos THEN LAST_USED_LAUNCHERS ELSE {"emacs", "nano", "vim", "wordgrinder"}

\* str.strip() and str.lower() on a text
RECURSIVE lstrip(_)
lstrip(s) == IF s # <<>> /\ Head(s) \in Blank THEN lstrip(Tail(s)) ELSE s

RECURSIVE rstrip(_)
rstrip(s) == IF s # <<>> /\ s[Len(s)] \in Blank THEN rstrip(SubSeq(s, 1, Len(s) - 1)) ELSE s

strip(s) == rstrip(lstrip(s))

lower(s) == [i \in 1..Len(s) |-> IF s[i] = "Day" THEN "day" ELSE s[i]]

\* get_last_used(): the stripped text, None when it is empty or the read raised.
get_last_used(readable) ==
    IF ~last_used_file.exists \/ ~readable THEN None
    ELSE IF strip(last_used_file.text) = <<>> THEN None
    ELSE strip(last_used_file.text)

last_used_menu_item(readable) ==
    LET app_id == get_last_used(readable) IN
    IF app_id = None THEN None
    ELSE IF Len(app_id) = 1 /\ app_id[1] \in LAST_USED_LAUNCHERS THEN app_id
    ELSE None

_read_persisted_theme(readable) ==
    IF ~theme_file.exists \/ ~readable THEN None
    ELSE IF lower(strip(theme_file.text)) = <<>> THEN None
    ELSE lower(strip(theme_file.text))

\* A theme that reads the persisted choice before it looks at WD_THEME.
_resolve_theme_name_persisted_first(readable) ==
    LET persisted == _read_persisted_theme(readable)
        env_name == lower(strip(wd_theme)) IN
    IF persisted # None /\ Len(persisted) = 1 /\ persisted[1] \in THEME_PRESETS
    THEN persisted[1]
    ELSE IF Len(env_name) = 1 /\ env_name[1] \in THEME_PRESETS THEN env_name[1]
    ELSE "night"

_resolve_theme_name(readable) ==
    LET persisted == _read_persisted_theme(readable)
        env_name == lower(strip(wd_theme)) IN
    IF env_name # <<>> /\ Len(env_name) = 1 /\ env_name[1] \in THEME_PRESETS
    THEN env_name[1]
    ELSE IF persisted # None /\ Len(persisted) = 1 /\ persisted[1] \in THEME_PRESETS
         THEN persisted[1]
    ELSE "night"

\* How the command a menu action runs can end: exit status 0, another exit status,
\* FileNotFoundError from subprocess, another OSError from subprocess.
ProcOutcomes == {"ok", "nonzero", "notfound", "oserror"}

\* _macos_block: a dialog instead of the command.
Blocked == [NoAct EXCEPT !.dialog = TRUE]

launch_app(kind, o) ==
    IF kind = "gui"
    THEN IF is_macos
         THEN \* subprocess.run(["/usr/bin/open", "-a", target]) outside any try
              [NoAct EXCEPT !.ran = TRUE, !.outcome = o, !.dialog = (o = "nonzero"),
                            !.escaped = (o \in {"notfound", "oserror"})]
         ELSE \* subprocess.Popen: the exit status is never read
              [NoAct EXCEPT !.ran = TRUE, !.outcome = o,
                            !.dialog = (o \in {"notfound", "oserror"})]
    ELSE \* kind = "tui": only FileNotFoundError is caught
         [NoAct EXCEPT !.ran = TRUE, !.outcome = o,
                       !.dialog = (o \in {"nonzero", "notfound"}),
                       !.escaped = (o = "oserror")]

\* subprocess.run(cmd) with no try around it and its return code dropped.
run_unguarded(o) ==
    [NoAct EXCEPT !.ran = TRUE, !.outcome = o, !.escaped = (o \in {"notfound", "oserror"})]

run_nmtui_wifi(o) == IF is_macos THEN Blocked ELSE run_unguarded(o)

wifi_power(which, o) == IF is_macos \/ ~which THEN Blocked ELSE run_unguarded(o)

reboot_pi(o) == IF is_macos THEN Blocked ELSE run_unguarded(o)

shutdown_pi(o) == IF is_macos THEN Blocked ELSE run_unguarded(o)

\* _sh catches every exception and turns it into a return code.
bt_power(which, o) ==
    IF is_macos \/ ~which THEN Blocked
    ELSE [NoAct EXCEPT !.ran = TRUE, !.outcome = o, !.dialog = (o # "ok")]

\* Python imports tui.actions and tui.theme, then main_menu_loop builds the main
\* menu.  _state_dir()'s mkdir runs at import with no try around it; it can fail
\* only where the directory, and so the file in it, does not exist yet.
Import ==
    /\ tpc = "import"
    /\ \E mkdir_ok, theme_readable, lu_readable \in BOOLEAN :
         /\ mkdir_ok \/ ~last_used_file.exists
         /\ IF ~mkdir_ok
            THEN /\ tpc' = "crashed"
                 /\ crash' = "state_dir"
                 /\ UNCHANGED <<current_theme, menu_last_used>>
            ELSE /\ tpc' = "menu"
                 /\ current_theme' = _resolve_theme_name(theme_readable)
                 /\ menu_last_used' = last_used_menu_item(lu_readable)
                 /\ UNCHANGED crash
    /\ UNCHANGED <<is_macos, wd_theme, last_used_file, theme_file, job, act, obs, notTui>>

\* A launcher is picked, from the writing suite or through "Last Used", and
\* run_<app> calls record_last_used: write_text opens the file for writing, which
\* truncates it.  An error is swallowed and the launch goes on.
RunApp ==
    /\ tpc = "menu"
    /\ \E app_id \in writing_suite_menu \cup
                      (IF menu_last_used = None THEN {} ELSE {menu_last_used[1]}),
          open_ok \in BOOLEAN :
         /\ job' = [kind |-> "app", arg |-> <<app_id>>, name |-> app_id,
                    old |-> get_last_used(TRUE), pass |-> 1]
         /\ IF open_ok
            THEN /\ last_used_file' = FileOf(<<>>)
                 /\ tpc' = "record_write"
            ELSE /\ tpc' = "launch"
                 /\ UNCHANGED last_used_file
    /\ act' = NoAct
    /\ UNCHANGED <<is_macos, wd_theme, crash, theme_file, current_theme, menu_last_used,
                   obs, notTui>>

\* write_text writes app_id.strip() + "\n" and closes; an error is swallowed and
\* leaves the file as the open left it.
RecordWrite ==
    /\ tpc = "record_write"
    /\ \E write_ok \in BOOLEAN :
         last_used_file' = IF write_ok THEN FileOf(<<job.name, NL>>) ELSE last_used_file
    /\ tpc' = "launch"
    /\ UNCHANGED <<is_macos, wd_theme, crash, theme_file, current_theme, menu_last_used,
                   job, act, obs, notTui>>

\* The command of a menu action has run: an exception it let through ends the
\* menu process, since main_menu_loop and main catch only KeyboardInterrupt.
Ran(cmd, a) ==
    /\ act' = [a EXCEPT !.cmd = cmd]
    /\ tpc' = IF a.escaped THEN "crashed" ELSE "returned"
    /\ crash' = IF a.escaped THEN a.outcome ELSE crash
    /\ UNCHANGED <<is_macos, wd_theme, last_used_file, theme_file, current_theme,
                   menu_last_used, job, obs, notTui>>

LaunchApp ==
    /\ tpc = "launch"
    /\ \E o \in ProcOutcomes : Ran(job.name, launch_app(LauncherKind(job.name), o))

RunNmtuiWifi ==
    /\ tpc = "menu"
    /\ \E o \in ProcOutcomes : Ran("nmtui", run_nmtui_wifi(o))

\* shutil.which has found the tool, or not; a tool it found is there to run.
WifiPower ==
    /\ tpc = "menu"
    /\ \E which \in BOOLEAN, o \in ProcOutcomes \ {"notfound"} : Ran("nmcli radio wifi", wifi_power(which, o))

BtPower ==
    /\ tpc = "menu"
    /\ \E which \in BOOLEAN, o \in ProcOutcomes \ {"notfound"} : Ran("bluetoothctl power", bt_power(which, o))

RebootPi ==
    /\ tpc = "menu"
    /\ \E o \in ProcOutcomes : Ran("sudo reboot", reboot_pi(o))

ShutdownPi ==
    /\ tpc = "menu"
    /\ \E o \in ProcOutcomes : Ran("sudo shutdown now", shutdown_pi(o))

\* launch_theme_switcher_action: a theme is picked; set_theme(val) follows, and
\* init_theme(val) calls set_theme(val) once more.
PickTheme ==
    /\ tpc = "menu"
    /\ \E val \in THEME_PRESETS :
         job' = [kind |-> "theme", arg |-> <<val>>, name |-> val, old |-> <<>>, pass |-> 1]
    /\ tpc' = "set_theme"
    /\ act' = NoAct
    /\ UNCHANGED <<is_macos, wd_theme, crash, last_used_file, theme_file, current_theme,
                   menu_last_used, obs, notTui>>

\* The names set_theme is handed by a caller other than the theme switcher
\* (init_theme(theme_name)): presets as typed, other words, nothing.
ThemeArgs == {<<>>, <<"bogus">>, <<" ", "Day">>, <<"toxic", NL>>, <<"day", "night">>}

\* A set_theme that takes any word for a theme.
set_theme_accepts_any_name(name) ==
    LET n == lower(strip(name)) IN
    IF Len(n) >= 1 THEN n[1] ELSE ""

\* set_theme's first lines: name = (name or "").strip().lower() and the test
\* name in THEME_PRESETS; the name it goes on with, or "" when it returns at once.
set_theme(name) ==
    LET n == lower(strip(name)) IN
    IF Len(n) = 1 /\ n[1] \in THEME_PRESETS THEN n[1] ELSE ""

\* set_theme(name) is called on its own.
SetTheme ==
    /\ tpc = "menu"
    /\ \E name \in ThemeArgs :
         IF set_theme(name) = ""
         THEN /\ job' = [NoJob EXCEPT !.kind = "theme_rejected", !.arg = name, !.pass = 2]
              /\ tpc' = "returned"
         ELSE /\ job' = [NoJob EXCEPT !.kind = "theme", !.arg = name,
                                     !.name = set_theme(name), !.pass = 2]
              /\ tpc' = "set_theme"
    /\ act' = NoAct
    /\ UNCHANGED <<is_macos, wd_theme, crash, last_used_file, theme_file, current_theme,
                   menu_last_used, obs, notTui>>

\* set_theme: _CURRENT_THEME is set, then CFG_DIR.mkdir and write_text's open,
\* which truncates the file.  An error is swallowed.
SetThemeOpen ==
    /\ tpc = "set_theme"
    /\ current_theme' = job.name
    /\ \E open_ok \in BOOLEAN :
         IF open_ok
         THEN /\ theme_file' = FileOf(<<>>)
              /\ tpc' = "theme_write"
              /\ job' = [job EXCEPT !.old = _read_persisted_theme(TRUE)]
         ELSE /\ tpc' = IF job.pass = 1 THEN "set_theme" ELSE "returned"
              /\ job' = [job EXCEPT !.pass = 2]
              /\ UNCHANGED theme_file
    /\ UNCHANGED <<is_macos, wd_theme, crash, last_used_file, menu_last_used, act, obs,
                   notTui>>

\* write_text writes name + "\n" and closes; an error is swallowed.
SetThemeWrite ==
    /\ tpc = "theme_write"
    /\ \E write_ok \in BOOLEAN :
         theme_file' = IF write_ok THEN FileOf(<<job.name, NL>>) ELSE theme_file
    /\ tpc' = IF job.pass = 1 THEN "set_theme" ELSE "returned"
    /\ job' = [job EXCEPT !.pass = 2]
    /\ UNCHANGED <<is_macos, wd_theme, crash, last_used_file, current_theme, menu_last_used,
                   act, obs, notTui>>

\* The action has returned: main_menu_loop rebuilds MAIN_MENU and shows it.
BackToMenu ==
    /\ tpc = "returned"
    /\ \E readable \in BOOLEAN : menu_last_used' = last_used_menu_item(readable)
    /\ tpc' = "menu"
    /\ job' = NoJob
    /\ act' = NoAct
    /\ UNCHANGED <<is_macos, wd_theme, crash, last_used_file, theme_file, current_theme,
                   obs, notTui>>

\* The menu is left (Ctrl-C in the main menu ends main quietly) and started again
\* later: a new process, the same environment and the same files.
Quit ==
    /\ tpc = "menu"
    /\ tpc' = "import"
    /\ current_theme' = "night"
    /\ menu_last_used' = None
    /\ UNCHANGED <<is_macos, wd_theme, crash, last_used_file, theme_file, job, act, obs,
                   notTui>>

\* The files as a previous session may have left them (or a hand may have edited).
InitTui ==
    /\ RotOff
    /\ CliOff
    /\ LanOff
    /\ ViewOff
    /\ HttpOff
    /\ BtOff
    /\ is_macos \in BOOLEAN
    /\ wd_theme \in {<<>>, <<" ", "Day">>, <<"bogus">>}
    /\ tpc = "import"
    /\ crash = "none"
    /\ last_used_file \in {NoFile, FileOf(<<"vim", NL>>), FileOf(<<"gedit", NL>>),
                           FileOf(<<"bogus", NL>>)}
    /\ theme_file \in {NoFile, FileOf(<<"toxic", NL>>), FileOf(<<"Day", NL>>),
                       FileOf(<<"bogus", NL>>)}
    /\ current_theme = "night"
    /\ menu_last_used = None
    /\ job = NoJob
    /\ act = NoAct
    /\ obs = NoObs

NextTui ==
    \/ Import
    \/ RunApp
    \/ RecordWrite
    \/ LaunchApp
    \/ RunNmtuiWifi
    \/ WifiPower
    \/ BtPower
    \/ RebootPi
    \/ ShutdownPi
    \/ PickTheme
    \/ SetTheme
    \/ SetThemeOpen
    \/ SetThemeWrite
    \/ BackToMenu
    \/ Quit

SpecTui == InitTui /\ [][NextTui]_vars

(***************************************************************************)
(* The menu next to another process that reads the state files: a second   *)
(* menu in another terminal, which reads last_used.txt whenever it         *)
(* rebuilds its main menu and the theme file when it starts                *)
(***************************************************************************)
OtherGetLastUsed ==
    /\ tpc # "crashed"
    /\ obs' = [file |-> "last_used",
               value |-> get_last_used(TRUE),
               writing |-> tpc = "record_write",
               old |-> IF tpc = "record_write" THEN job.old ELSE <<>>,
               new |-> IF tpc = "record_write" THEN <<job.name>> ELSE <<>>]
    /\ UNCHANGED <<is_macos, wd_theme, tpc, crash, last_used_file, theme_file, current_theme,
                   menu_last_used, job, act, notTui>>

OtherReadTheme ==
    /\ tpc # "crashed"
    /\ obs' = [file |-> "theme",
               value |-> _read_persisted_theme(TRUE),
               writing |-> tpc = "theme_write",
               old |-> IF tpc = "theme_write" THEN job.old ELSE <<>>,
               new |-> IF tpc = "theme_write" THEN <<job.name>> ELSE <<>>]
    /\ UNCHANGED <<is_macos, wd_theme, tpc, crash, last_used_file, theme_file, current_theme,
                   menu_last_used, job, act, notTui>>

InitShared ==
    /\ RotOff
    /\ CliOff
    /\ LanOff
    /\ ViewOff
    /\ HttpOff
    /\ BtOff
    /\ is_macos = FALSE
    /\ wd_theme = <<>>
    /\ tpc = "import"
    /\ crash = "none"
    /\ last_used_file \in {NoFile, FileOf(<<"vim", NL>>)}
    /\ theme_file \in {NoFile, FileOf(<<"toxic", NL>>)}
    /\ current_theme = "night"
    /\ menu_last_used = None
    /\ job = NoJob
    /\ act = NoAct
    /\ obs = NoObs

NextShared ==
    \/ Import
    \/ RunApp
    \/ RecordWrite
    \/ LaunchApp
    \/ PickTheme
    \/ SetThemeOpen
    \/ SetThemeWrite
    \/ BackToMenu
    \/ OtherGetLastUsed
    \/ OtherReadTheme

SpecShared == InitShared /\ [][NextShared]_vars

(***************************************************************************)
(* Properties of the menu                                                  *)
(***************************************************************************)
\* C8: when the command a menu action runs fails (a non-zero exit status, a
\* missing executable, another launch error) a dialog is shown and the action
\* returns to the menu; no exception ends the menu process.
C8_CommandFailuresShowADialog ==
    (act.ran /\ act.outcome # "ok") => (act.dialog /\ ~act.escaped /\ tpc = "returned")

\* C9: no file-system error in state persistence ends the menu process: not in
\* creating the state directory, not in recording or reading the last-used app,
\* not in reading or writing the theme; the app is still launched and the
\* in-session theme is still switched.
C9_StateErrorsDoNotPropagate ==
    /\ crash # "state_dir"
    /\ (job.kind = "app" /\ tpc \in {"returned", "crashed"}) => act.ran
    /\ (job.kind = "theme" /\ tpc \in {"theme_write", "returned"}) => current_theme = job.name

\* C10: a process that reads a state file while the menu is writing it gets the
\* complete old value or the complete new value, never an empty or partial one.
C10_ReadersSeeOldOrNew ==
    obs.writing => obs.value \in {obs.old, obs.new}

\* WD_THEME as _resolve_theme_name reads it, when it names a preset.
EnvTheme == lower(strip(wd_theme))
EnvValid == Len(EnvTheme) = 1 /\ EnvTheme[1] \in THEME_PRESETS

\* C13 as stated: whenever WD_THEME names a preset, get_theme() returns it,
\* whatever start-ups, set_theme and init_theme calls came before.
C13_EnvAlwaysWins ==
    (EnvValid /\ tpc \notin {"import", "crashed"}) => current_theme = EnvTheme[1]

\* C13 amended: with WD_THEME naming a preset, every start-up sets the theme to
\* WD_THEME's value (stripped, lower case) whatever the theme file holds;
\* set_theme(name), also through init_theme(name), sets it to name for the rest
\* of the session; nothing else changes it.
C13_EnvWinsAtStartUp ==
    [][EnvValid =>
         IF tpc = "import" /\ tpc' = "menu" THEN current_theme' = EnvTheme[1]
         ELSE IF tpc = "set_theme" THEN current_theme' = job.name
         ELSE IF tpc' = "import" \/ tpc' = "crashed" THEN TRUE
         ELSE current_theme' = current_theme]_vars

\* The menu has started with WD_THEME naming day while the theme file, written by
\* a theme switch of an earlier session, names toxic.
C13_Witness ==
    /\ EnvValid
    /\ tpc = "menu"
    /\ job = NoJob
    /\ theme_file = FileOf(<<"toxic", NL>>)
    /\ last_used_file = FileOf(<<"emacs", NL>>)
    /\ current_theme = "day"

\* The presets a name names once stripped and lower-cased: one or none.
PresetsNamed(name) == {n \in THEME_PRESETS : lower(strip(name)) = <<n>>}

\* The presets the theme file names when it holds what set_theme writes.
PresetsWritten == {n \in THEME_PRESETS : theme_file = FileOf(<<n, NL>>)}

\* What C21 says of one step: set_theme with a name that is no preset changes
\* nothing; with a preset name the active theme becomes that preset.
SetThemeStep ==
    /\ (tpc = "menu" /\ job'.kind \in {"theme", "theme_rejected"}
          /\ PresetsNamed(job'.arg) = {})
          => (current_theme' = current_theme /\ theme_file' = theme_file
              /\ tpc' = "returned")
    /\ tpc = "set_theme" => {current_theme'} = PresetsNamed(job.arg)

PersistedApps ==
    {a \in LAST_USED_LAUNCHERS : last_used_file.exists /\ strip(last_used_file.text) = <<a>>}

\* C24: whenever the persisted last-used id is a known writing app, the main
\* menu's first entry is "Last Used" for that app and selecting it runs that
\* app's launcher; after a writing app has been launched from any menu, the main
\* menu rebuilt on return shows that app as its Last Used entry; with no or an
\* unknown persisted id the main menu has no Last Used entry.
C24_LastUsedEntryFollowsLaunches ==
    /\ [](tpc = "menu" =>
            IF PersistedApps # {} THEN menu_last_used # None /\ {menu_last_used[1]} = PersistedApps
            ELSE menu_last_used = None)
    /\ []((job.kind = "app" /\ act.ran) => act.cmd = job.name)
    /\ [][(tpc = "returned" /\ job.kind = "app" /\ tpc' = "menu") =>
             menu_last_used' = <<job.name>>]_vars

(***************************************************************************)
(* Screen rotation: get_current_rotation and set_rotation on config.txt.   *)
(* A line is the sequence of its pieces: " " (white space), "KEY"          *)
(* (display_hdmi_rotate), "=", a digit, "#c" (a comment to the end of the  *)
(* line), "x" (other text).  A file is its lines and whether the last one  *)
(* ends with a newline.                                                    *)
(***************************************************************************)
KEY == "KEY"

RotValues == 0..3

\* f"{rot_val}" and int(m.group(1))
DigitOf(v) == CASE v = 0 -> "0" [] v = 1 -> "1" [] v = 2 -> "2" [] v = 3 -> "3"
IntOf(d) == CASE d = "0" -> 0 [] d = "1" -> 1 [] d = "2" -> 2 [] d = "3" -> 3

\* \s* at the head of a text, where \s is white space; an awk that does not know
\* \s takes it for the letter s, of which these lines have none.
SkipSpace(l, space_class) == IF space_class THEN lstrip(l) ELSE l

\* ^\s*KEY\s*= , the pattern of the script's grep and awk
IsAssignment(l, space_class) ==
    LET a == SkipSpace(l, space_class) IN
    /\ a # <<>> /\ Head(a) = KEY
    /\ LET b == SkipSpace(Tail(a), space_class) IN b # <<>> /\ Head(b) = "="

\* ^\s*KEY\s*=\s*([0-3])\s*(#.*)?$ , the pattern of get_current_rotation:
\* the digit it captures, or NoRotation when the line does not match
RotationOf(l) ==
    IF ~IsAssignment(l, TRUE) THEN NoRotation
    ELSE LET c == lstrip(Tail(lstrip(Tail(lstrip(l))))) IN
         IF c = <<>> \/ Head(c) \notin {"0", "1", "2", "3"} THEN NoRotation
         ELSE LET d == lstrip(Tail(c)) IN
              IF d = <<>> \/ Head(d) = "#c" THEN IntOf(Head(c)) ELSE NoRotation

RECURSIVE FirstRotation(_)
FirstRotation(lines) ==
    IF lines = <<>> THEN NoRotation
    ELSE IF RotationOf(Head(lines)) # NoRotation THEN RotationOf(Head(lines))
    ELSE FirstRotation(Tail(lines))

get_current_rotation ==
    IF ~config.exists THEN NoRotation ELSE FirstRotation(config.lines)

\* The script of set_rotation.  grep knows \s.  With a match awk rewrites every
\* line its own pattern matches and ends every line with a newline; without one
\* cat copies the file and echo adds the assignment, to the last line itself when
\* that line has no newline at its end.
AwkRewrite(lines, v) ==
    [i \in 1..Len(lines) |->
        IF IsAssignment(lines[i], awk_space_class) THEN <<KEY, "=", DigitOf(v)>>
        ELSE lines[i]]

CatEcho(cfg, v) ==
    IF cfg.eol \/ cfg.lines = <<>>
    THEN Append(cfg.lines, <<KEY, "=", DigitOf(v)>>)
    ELSE [cfg.lines EXCEPT ![Len(cfg.lines)] = @ \o <<KEY, "=", DigitOf(v)>>]

RotationScript(cfg, v) ==
    IF \E i \in 1..Len(cfg.lines) : IsAssignment(cfg.lines[i], TRUE)
    THEN [exists |-> TRUE, lines |-> AwkRewrite(cfg.lines, v), eol |-> TRUE]
    ELSE [exists |-> TRUE, lines |-> CatEcho(cfg, v), eol |-> TRUE]

\* launch_rotation_action: a value is picked and set_rotation(val) runs; without
\* a config file it raises and a dialog is shown.
SetRotation ==
    /\ rpc \in {"menu", "done", "failed"}
    /\ \E v \in RotValues :
         /\ rot_val' = v
         /\ prev_config' = config
         /\ IF ~config.exists
            THEN rpc' = "failed" /\ UNCHANGED config
            ELSE rpc' = "done" /\ config' = RotationScript(config, v)
    /\ UNCHANGED <<awk_space_class, notRot>>

\* The lines a config.txt is made of before the menu touches it.
LineShapes ==
    { <<"x">>, <<"#c">>, <<" ">>,
      <<KEY, "=", "1">>,
      <<KEY, "=", "7">>,
      <<" ", KEY, " ", "=", " ", "3", " ", "#c">> }

ConfigLines == UNION { [1..n -> LineShapes] : n \in 0..MaxLines }

InitRot ==
    /\ HttpOff
    /\ BtOff
    /\ TuiOff
    /\ CliOff
    /\ LanOff
    /\ ViewOff
    /\ config \in {NoConfig} \cup
                  { [exists |-> TRUE, lines |-> ls, eol |-> e] :
                        ls \in ConfigLines, e \in BOOLEAN }
    /\ prev_config = NoConfig
    /\ awk_space_class \in BOOLEAN
    /\ rot_val = NoRotation
    /\ rpc = "menu"

NextRot == SetRotation

SpecRot == InitRot /\ [][NextRot]_vars

AssignmentCount(cfg) ==
    Cardinality({ i \in 1..Len(cfg.lines) : IsAssignment(cfg.lines[i], TRUE) })

\* C12: after set_rotation(v) get_current_rotation() is v, whatever the config
\* file held; a config without an assignment of the key gets exactly one, a
\* config with some gets no further one.
C12_RotationRoundTrip ==
    rpc = "done" =>
        /\ get_current_rotation = rot_val
        /\ AssignmentCount(config) =
               IF AssignmentCount(prev_config) = 0 THEN 1 ELSE AssignmentCount(prev_config)

(***************************************************************************)
(* The export server's command line (export_http_server.py main) and the   *)
(* menu entry that starts it (actions.run_custom_http_server).             *)
(*                                                                         *)
(* A name is the sequence of its characters and a path the sequence of its *)
(* names, so that str.startswith can be computed on the path's text.  A    *)
(* --file argument is the sequence of its "/"-separated pieces: a leading  *)
(* empty piece makes it absolute, <<>> is "no --file".                     *)
(***************************************************************************)
DEFAULT_PORT == "8080"
Ports == {DEFAULT_PORT, "9090"}

Export  == <<"e", "x">>
Export2 == <<"e", "x", "2">>
Stash   == <<"s">>
Note    == <<"n">>
Key     == <<"k">>
Gone    == <<"g">>
DotDot  == <<".", ".">>

CliDirs  == {<<>>, <<Export>>, <<Export2>>, <<Export, Stash>>}
CliFiles == {<<Export, Note>>, <<Export, Stash, Note>>, <<Export2, Note>>, <<Key>>}

\* os.path.isdir, os.path.exists
isdir_cli(path) == path \in CliDirs
exists_cli(path) == path \in CliDirs \cup CliFiles

\* os.path.join(export_dir, file): an absolute second argument replaces the first.
join(dir, file) == IF file # <<>> /\ file[1] = <<>> THEN file ELSE dir \o file

\* os.path.normpath on the pieces: empty pieces and "." go, ".." takes the piece
\* before it away and stays at the root.
RECURSIVE normpath_names(_, _)
normpath_names(done, rest) ==
    IF rest = <<>> THEN done
    ELSE IF rest[1] = <<>> \/ rest[1] = <<".">> THEN normpath_names(done, Tail(rest))
    ELSE IF rest[1] = DotDot
         THEN normpath_names(IF done = <<>> THEN <<>> ELSE SubSeq(done, 1, Len(done) - 1),
                       Tail(rest))
    ELSE normpath_names(Append(done, rest[1]), Tail(rest))

\* os.path.abspath of an absolute path
abspath(pieces) == normpath_names(<<>>, pieces)

\* The text of a path: "/" for the root, else "/" and the name, for each name.
RECURSIVE Str(_)
Str(path) ==
    IF path = <<>> THEN <<"/">>
    ELSE IF Len(path) = 1 THEN <<"/">> \o path[1]
    ELSE <<"/">> \o path[1] \o Str(Tail(path))

\* str.startswith
startswith(text, prefix) ==
    Len(text) >= Len(prefix) /\ SubSeq(text, 1, Len(prefix)) = prefix

\* main's check of --file:
\*   not (not serve_file.startswith(export_dir) or not os.path.exists(serve_file))
file_is_accepted(export_dir, serve_file) ==
    /\ startswith(Str(serve_file), Str(export_dir))
    /\ exists_cli(serve_file)

\* argparse: --port defaults to DEFAULT_PORT
port_of(argv) == IF argv.port = "none" THEN DEFAULT_PORT ELSE argv.port

\* main's export_dir and serve_file
export_dir_of(argv) == abspath(argv.dir)
serve_file_of(argv) == abspath(join(export_dir_of(argv), argv.file))

\* run_custom_http_server's cmd:
\*   ["/usr/bin/python3", SCRIPT, "--dir", EXPORT_DIR, "--list"]
cmd(EXPORT_DIR, port) ==
    [dir |-> EXPORT_DIR, file |-> <<>>, port |-> "none", list |-> TRUE]

\* run_custom_http_server(stdscr, port): without the script it returns after the
\* "missing" screen; else it probes 127.0.0.1:port, spawns cmd when nothing
\* answers, and shows http://ip:port/.  One server process is followed at a time.
RunCustomHttpServer ==
    /\ cli.state # "started"
    /\ \E port \in Ports :
         /\ cli.state = "serving" => port \in listening
         /\ IF ~script_exists
            THEN /\ menu_call' = [NoCall EXCEPT !.port = port, !.outcome = "missing"]
                 /\ UNCHANGED cli
            ELSE IF port \in listening
            THEN /\ menu_call' = [port |-> port, probed |-> port, shown |-> port,
                                  outcome |-> "active"]
                 /\ UNCHANGED cli
            ELSE /\ menu_call' = [port |-> port, probed |-> port, shown |-> port,
                                  outcome |-> "engaged"]
                 /\ cli' = [NoCli EXCEPT !.state = "started", !.by = "menu",
                                         !.argv = cmd(<<Export>>, port)]
    /\ UNCHANGED <<script_exists, listening, notCli>>

\* The command lines a user types.
ShellArgs ==
    [dir : {<<Export>>, <<Gone>>},
     file : {<<>>, <<Note>>, <<Stash>>, <<Stash, Note>>, <<Gone>>,
             <<DotDot, Export2, Note>>, <<DotDot, Key>>, <<<<>>, Export2, Note>>,
             <<Stash, DotDot, Note>>},
     port : {"none", "9090"},
     list : BOOLEAN]

\* export_http_server.py is started from a shell.
ShellStart ==
    /\ cli.state \in {"none", "exited"}
    /\ \E argv \in ShellArgs :
         cli' = [NoCli EXCEPT !.state = "started", !.by = "shell", !.argv = argv]
    /\ UNCHANGED <<script_exists, listening, menu_call, notCli>>

\* main, up to serve_forever: sys.exit(1) for a missing export directory and for
\* a refused --file; ThreadingHTTPServer's bind raises OSError on a port in use,
\* which ends the process with a traceback and status 1.
Main ==
    /\ cli.state = "started"
    /\ LET export_dir == export_dir_of(cli.argv)
           serve_file == IF cli.argv.file # <<>> THEN serve_file_of(cli.argv) ELSE <<>>
       IN  IF ~isdir_cli(export_dir)
           THEN /\ cli' = [cli EXCEPT !.state = "exited", !.exit_status = 1]
                /\ UNCHANGED listening
           ELSE IF cli.argv.file # <<>> /\ ~file_is_accepted(export_dir, serve_file)
           THEN /\ cli' = [cli EXCEPT !.state = "exited", !.exit_status = 1]
                /\ UNCHANGED listening
           ELSE IF port_of(cli.argv) \in listening
           THEN /\ cli' = [cli EXCEPT !.state = "exited", !.exit_status = 1,
                                      !.serve_file = serve_file]
                /\ UNCHANGED listening
           ELSE /\ cli' = [cli EXCEPT !.state = "serving", !.serve_file = serve_file,
                                      !.bound = port_of(cli.argv)]
                /\ listening' = listening \cup {port_of(cli.argv)}
    /\ UNCHANGED <<script_exists, menu_call, notCli>>

\* Ctrl-C: serve_forever's KeyboardInterrupt is passed over, the socket is closed.
Interrupt ==
    /\ cli.state = "serving"
    /\ cli' = [cli EXCEPT !.state = "exited", !.exit_status = 0]
    /\ listening' = listening \ {cli.bound}
    /\ UNCHANGED <<script_exists, menu_call, notCli>>

InitCli ==
    /\ HttpOff
    /\ BtOff
    /\ TuiOff
    /\ RotOff
    /\ LanOff
    /\ ViewOff
    /\ script_exists \in BOOLEAN
    /\ listening \in SUBSET Ports
    /\ menu_call = NoCall
    /\ cli = NoCli

NextCli ==
    \/ RunCustomHttpServer
    \/ ShellStart
    \/ Main
    \/ Interrupt

SpecCli == InitCli /\ [][NextCli]_vars

\* C14: once the server spawned by run_custom_http_server(port) listens, the
\* port probed, the port shown in the URL and the port bound are one and the
\* same.
C14_ProbedShownAndBoundPortAgree ==
    (menu_call.outcome = "engaged" /\ cli.by = "menu" /\ cli.state = "serving") =>
        /\ menu_call.probed = menu_call.port
        /\ menu_call.shown = menu_call.port
        /\ cli.bound = menu_call.port

\* --file lies inside the export directory tree: component by component.
Inside(path, dir) == Len(path) >= Len(dir) /\ SubSeq(path, 1, Len(dir)) = dir

\* C20: with --file, the server serves only if the resolved file exists and lies
\* inside the export directory tree; a --file that resolves outside it ends the
\* process with status 1 and no socket bound.
C20_FileOutsideIsRefused ==
    (cli.argv.file # <<>> /\ isdir_cli(export_dir_of(cli.argv))) =>
        /\ cli.state = "serving" =>
             /\ exists_cli(serve_file_of(cli.argv))
             /\ Inside(serve_file_of(cli.argv), export_dir_of(cli.argv))
        /\ (cli.state \in {"serving", "exited"}
              /\ ~Inside(serve_file_of(cli.argv), export_dir_of(cli.argv))) =>
             /\ cli.state = "exited"
             /\ cli.exit_status = 1
             /\ cli.bound = "none"

(***************************************************************************)
(* export_http_server.py lan_ips.  An address is a sequence of words:      *)
(* <<"192.168.0.123">>, and <<"raspberrypi", ".local">> for the mDNS name. *)
(***************************************************************************)
Hostnames == {<<"raspberrypi">>}
Addrs == {<<"192.168.0.123">>, <<"10.0.0.5">>, <<"fe80::1">>}

RECURSIVE SeqsUpTo(_, _)
SeqsUpTo(S, n) ==
    IF n = 0 THEN {<<>>}
    ELSE SeqsUpTo(S, n - 1) \cup
         { Append(q, x) : q \in { r \in SeqsUpTo(S, n - 1) : Len(r) = n - 1 }, x \in S }

\* names, as the three try blocks fill it: the mDNS name, the socket's address,
\* the addresses `hostname -I` prints.
names ==
    (IF gethostname.raises THEN <<>>
     ELSE << <<"mDNS", gethostname.value \o <<".local">> >> >>)
    \o (IF getsockname.raises THEN <<>> ELSE << <<"LAN", getsockname.value>> >>)
    \o (IF hostname_I.raises THEN <<>>
        ELSE [i \in 1..Len(hostname_I.value) |-> <<"LAN", hostname_I.value[i]>>])

\* A loop that lets a later pair replace an earlier one with the same address.
RECURSIVE dedupe_keeping_the_last(_, _, _)
dedupe_keeping_the_last(pairs, seen, out) ==
    IF pairs = <<>> THEN out
    ELSE LET k == pairs[1][1]
             v == pairs[1][2]
             rest == SelectSeq(out, LAMBDA kv : kv[2] # v)
         IN  IF v # <<>>
             THEN dedupe_keeping_the_last(Tail(pairs), seen \cup {v}, Append(rest, <<k, v>>))
             ELSE dedupe_keeping_the_last(Tail(pairs), seen, out)

\* for k, v in names: if v and v not in seen: seen.add(v); uniq.append((k, v))
RECURSIVE dedupe(_, _, _)
dedupe(pairs, seen, out) ==
    IF pairs = <<>> THEN out
    ELSE LET k == pairs[1][1]
             v == pairs[1][2]
         IN  IF v # <<>> /\ v \notin seen
             THEN dedupe(Tail(pairs), seen \cup {v}, Append(out, <<k, v>>))
             ELSE dedupe(Tail(pairs), seen, out)

\* return uniq or [("loopback", "127.0.0.1")]
lan_ips ==
    LET u == dedupe(names, {}, <<>>) IN
    IF u # <<>> THEN u ELSE << <<"loopback", <<"127.0.0.1">> >> >>

LanIps ==
    /\ lpc = "call"
    /\ uniq' = lan_ips
    /\ lpc' = "done"
    /\ UNCHANGED <<gethostname, getsockname, hostname_I, notLan>>

InitLan ==
    /\ HttpOff
    /\ BtOff
    /\ TuiOff
    /\ RotOff
    /\ CliOff
    /\ ViewOff
    /\ gethostname \in {Returns(n) : n \in Hostnames} \cup {Raises}
    /\ getsockname \in {Returns(a) : a \in Addrs} \cup {Raises}
    /\ hostname_I \in {Returns(q) : q \in SeqsUpTo(Addrs, MaxAddrs)} \cup {Raises}
    /\ lpc = "call"
    /\ uniq = <<>>

NextLan == LanIps

SpecLan == InitLan /\ [][NextLan]_vars

\* Where an address is first discovered.
FirstAt(v) == CHOOSE i \in 1..Len(names) : names[i][2] = v /\ \A j \in 1..(i - 1) : names[j][2] # v

\* C17: lan_ips returns a non-empty list of (kind, address) pairs without a
\* repeated address; every discovered address is there once, with the kind of
\* its first discovery and in the order of first discovery (mDNS name, socket
\* address, `hostname -I` addresses); with nothing discovered the list is
\* [("loopback", "127.0.0.1")].
C17_LanIpsDedupesInOrder ==
    lpc = "done" =>
        /\ uniq # <<>>
        /\ \A i, j \in 1..Len(uniq) : uniq[i][2] = uniq[j][2] => i = j
        /\ IF names = <<>>
           THEN uniq = << <<"loopback", <<"127.0.0.1">> >> >>
           ELSE /\ { uniq[i][2] : i \in 1..Len(uniq) } = { names[i][2] : i \in 1..Len(names) }
                /\ \A i \in 1..Len(uniq) : uniq[i] = names[FirstAt(uniq[i][2])]
                /\ \A i, j \in 1..Len(uniq) :
                       i < j => FirstAt(uniq[i][2]) < FirstAt(uniq[j][2])
                /\ ~gethostname.raises => uniq[1][1] = "mDNS"
                /\ (~getsockname.raises /\ ~gethostname.raises) =>
                       uniq[2] = <<"LAN", getsockname.value>>

\* lan_ips has returned after the socket's address turned up again, second, in
\* the output of `hostname -I`.
C17_Witness ==
    /\ lpc = "done"
    /\ ~gethostname.raises
    /\ getsockname = Returns(<<"192.168.0.123">>)
    /\ hostname_I = Returns(<< <<"10.0.0.5">>, <<"192.168.0.123">> >>)
    /\ Len(uniq) = 3

(***************************************************************************)
(* tui/view.py select_loop and tui/actions.py _show_output_pager: what     *)
(* each key read by getch does.                                            *)
(***************************************************************************)
\* What getch returns: "LF" is 10, "CR" is 13, "ESC" is 27, "ERR" is -1.
Keys == {"KEY_UP", "k", "KEY_DOWN", "j", "KEY_ENTER", "LF", "CR", "ESC", "q",
         "KEY_PPAGE", "KEY_NPAGE", " ", "g", "G", "KEY_RESIZE", "ERR"}

\* A select_loop in which Esc returns the highlighted index as Enter does.
select_key_with_esc_as_enter(current, len, ch) ==
    IF ch \in {"KEY_UP", "k"} THEN [current |-> (current - 1) % len, returns |-> FALSE]
    ELSE IF ch \in {"KEY_DOWN", "j"} THEN [current |-> (current + 1) % len, returns |-> FALSE]
    ELSE IF ch \in {"KEY_ENTER", "LF", "CR", "ESC"} THEN [current |-> current, returns |-> TRUE]
    ELSE [current |-> current, returns |-> FALSE]

\* select_loop's if/elif chain on ch.
select_key(current, len, ch) ==
    IF ch \in {"KEY_UP", "k"} THEN [current |-> (current - 1) % len, returns |-> FALSE]
    ELSE IF ch \in {"KEY_DOWN", "j"} THEN [current |-> (current + 1) % len, returns |-> FALSE]
    ELSE IF ch \in {"KEY_ENTER", "LF", "CR"} THEN [current |-> current, returns |-> TRUE]
    ELSE [current |-> current, returns |-> FALSE]

\* select_loop is called: without labels it returns 0 at once.
SelectLoop ==
    /\ sel.pc \in {"call", "returned"}
    /\ \E len \in 0..MaxLabels :
         IF len = 0
         THEN sel' = [NoSel EXCEPT !.pc = "returned", !.ret = 0]
         ELSE \E current \in 0..(len - 1) :
                 sel' = [NoSel EXCEPT !.pc = "loop", !.len = len, !.current = current]
    /\ UNCHANGED <<pager, notView>>

\* One turn of select_loop's while: the list is drawn, a key is read.
SelectKey ==
    /\ sel.pc = "loop"
    /\ \E ch \in Keys :
         LET r == select_key(sel.current, sel.len, ch) IN
         sel' = [sel EXCEPT !.key = ch, !.current = r.current,
                            !.pc = IF r.returns THEN "returned" ELSE "loop",
                            !.ret = IF r.returns THEN r.current ELSE -1]
    /\ UNCHANGED <<pager, notView>>

InitSelect ==
    /\ HttpOff
    /\ BtOff
    /\ TuiOff
    /\ RotOff
    /\ CliOff
    /\ LanOff
    /\ sel = [NoSel EXCEPT !.pc = "call"]
    /\ pager = NoPager

NextSelect ==
    \/ SelectLoop
    \/ SelectKey

SpecSelect == InitSelect /\ [][NextSelect]_vars

\* C22: with labels and an initial index in range, select_loop returns only on
\* Enter and then returns the highlighted index; the highlight is always in
\* 0..len(labels)-1; Up/k and Down/j move it by exactly one, wrapping at both
\* ends; every other key, Esc included, leaves it where it is and does not return.
C22_SelectLoopKeys ==
    /\ [](sel.pc = "loop" => sel.current \in 0..(sel.len - 1))
    /\ []((sel.pc = "returned" /\ sel.len > 0) =>
             (sel.key \in {"KEY_ENTER", "LF", "CR"} /\ sel.ret = sel.current
              /\ sel.ret \in 0..(sel.len - 1)))
    /\ [][sel.pc = "loop" =>
            LET ch == sel'.key
                last == sel.len - 1
            IN  /\ ch \in {"KEY_ENTER", "LF", "CR"} <=> sel'.pc = "returned"
                /\ ch \in {"KEY_UP", "k"} =>
                      sel'.current = IF sel.current = 0 THEN last ELSE sel.current - 1
                /\ ch \in {"KEY_DOWN", "j"} =>
                      sel'.current = IF sel.current = last THEN 0 ELSE sel.current + 1
                /\ ch \notin {"KEY_UP", "k", "KEY_DOWN", "j"} =>
                      sel'.current = sel.current]_vars

\* k on the first of three labels has wrapped the highlight to the last, and
\* select_loop goes on.
C22_Witness ==
    /\ sel.pc = "loop"
    /\ sel.len = 3
    /\ sel.key = "k"
    /\ sel.current = 2

\* The rows of the pager's body: body_h = max(1, h - 3).
body_h(rows) == IF rows - 3 > 1 THEN rows - 3 ELSE 1

\* The pager's if/elif chain on ch, in a window of at least two rows: the new top
\* and whether the pager returns.
pager_key(top, len, rows, ch) ==
    IF ch \in {"q", "ESC"} THEN [top |-> top, returns |-> TRUE]
    ELSE IF ch = "KEY_DOWN"
         THEN [top |-> IF top + body_h(rows) < len THEN top + 1 ELSE top, returns |-> FALSE]
    ELSE IF ch = "KEY_UP"
         THEN [top |-> IF top > 0 THEN top - 1 ELSE top, returns |-> FALSE]
    ELSE [top |-> top, returns |-> FALSE]

\* _show_output_pager is called: lines = text.splitlines() or [""], top = 0.
ShowOutputPager ==
    /\ pager.pc \in {"call", "returned"}
    /\ \E len \in 1..MaxPagerLines, rows \in 1..MaxRows :
         pager' = [NoPager EXCEPT !.pc = "loop", !.len = len, !.h = rows]
    /\ UNCHANGED <<sel, notView>>

\* One turn of the pager's while: in a window of fewer than two rows only q and
\* Esc are looked at.
PagerKey ==
    /\ pager.pc = "loop"
    /\ \E ch \in Keys :
         IF pager.h < 2
         THEN pager' = [pager EXCEPT !.key = ch,
                           !.pc = IF ch \in {"q", "ESC"} THEN "returned" ELSE "loop"]
         ELSE LET r == pager_key(pager.top, pager.len, pager.h, ch) IN
              pager' = [pager EXCEPT !.key = ch, !.top = r.top,
                           !.pc = IF r.returns THEN "returned" ELSE "loop"]
    /\ UNCHANGED <<sel, notView>>

InitPager ==
    /\ HttpOff
    /\ BtOff
    /\ TuiOff
    /\ RotOff
    /\ CliOff
    /\ LanOff
    /\ sel = NoSel
    /\ pager = [NoPager EXCEPT !.pc = "call"]

NextPager ==
    \/ ShowOutputPager
    \/ PagerKey

SpecPager == InitPager /\ [][NextPager]_vars

\* The last top at which the pager's body is filled: len(lines) - body_h, or 0.
LastTop == IF pager.len - body_h(pager.h) > 0 THEN pager.len - body_h(pager.h) ELSE 0

\* C23: in the pager Up and Down scroll one line, PgUp, PgDn and Space one page,
\* g jumps to the top and G to the bottom, each as far as the text goes; q and
\* Esc exit.
C23_PagerKeys ==
    [][(pager.pc = "loop" /\ pager.h >= 2) =>
         LET ch == pager'.key
             page == body_h(pager.h)
             down(k) == IF pager.top + k < LastTop THEN pager.top + k ELSE LastTop
             up(k) == IF pager.top - k > 0 THEN pager.top - k ELSE 0
         IN  /\ ch \in {"q", "ESC"} <=> pager'.pc = "returned"
             /\ ch = "KEY_DOWN" => pager'.top = down(1)
             /\ ch = "KEY_UP" => pager'.top = up(1)
             /\ ch \in {"KEY_NPAGE", " "} => pager'.top = down(page)
             /\ ch = "KEY_PPAGE" => pager'.top = up(page)
             /\ ch = "g" => pager'.top = 0
             /\ ch = "G" => pager'.top = LastTop]_vars

====
